---- MODULE Spec2Model ----
(***************************************************************************)
(* Model of generate.js, the static site generator of the blog: an async   *)
(* main function that lists the posts, clears the output folder, parses    *)
(* the posts, writes one page per post, writes the homepage and copies the *)
(* styles.  Concurrent phases (Promise.all over removals, reads and        *)
(* writes) are modelled one task completion per step.                      *)
(***************************************************************************)
EXTENDS Integers, Sequences, FiniteSets, TLC

VARIABLES
    postsDir,      \* environment: what readdirSync(postsFolder) returns
    malformed,     \* environment: post files whose front matter does not parse
    fs,            \* environment: the files on disk, path -> content
    outExists,     \* environment: does the output folder exist
    pc,            \* position of the async main function
    posts,         \* const posts (line 43)
    removes,       \* the fse.remove promises of the clear step, entry -> status
    reads,         \* the read/parse promises of line 60-63, index -> status
    readOrder,     \* indices of the read/parse promises in settling order
    reordered,     \* history: the reads settled in another order than started
    postMarkdown,  \* const postMarkdown (line 60)
    writes,        \* the saveFile promises of line 65-68, index -> task
    failed,        \* the promise of main is rejected
    failedAt,      \* history: the step that rejected main first
    written,       \* history: paths written to by the current run
    fs0,           \* history: fs when the current run started
    outExists0,    \* history: outExists when the current run started
    run,           \* history: "first" or "second" run of the script
    fsFirst,       \* history: fs when the first run ended in success
    text,          \* excerpt: the plain text given by html2plaintext
    result         \* excerpt: the value returned by excerpt

buildVars == <<postsDir, malformed, fs, outExists, pc, posts, removes, reads,
               readOrder, reordered, postMarkdown, writes, failed, failedAt,
               written, fs0, outExists0, run, fsFirst>>
excerptVars == <<text, result>>
vars == <<postsDir, malformed, fs, outExists, pc, posts, removes, reads,
          readOrder, reordered, postMarkdown, writes, failed, failedAt,
          written, fs0, outExists0, run, fsFirst, text, result>>

----------------------------------------------------------------------------
(* Names are sequences of characters, so that String.replace and file[0]   *)
(* are computed as the code computes them.                                 *)

postsFolder == <<"p","o","s","t","s">>
stylesFolder == <<"s","t","y","l","e","s">>
outputFolder == <<"g","h","-","p","a","g","e","s">>
indexHtml == <<"i","n","d","e","x",".","h","t","m","l">>
dotMd == <<".","m","d">>
dotHtml == <<".","h","t","m","l">>

\* the output folder the README names
docsFolder == <<"d","o","c","s">>

\* file names the posts folder may hold
aMd == <<"a",".","m","d">>
bMd == <<"b",".","m","d">>
aHtml == <<"a",".","h","t","m","l">>
aMdMd == <<"a",".","m","d",".","m","d">>
FileNames == {aMd, bMd, aHtml, aMdMd}

\* entries the output folder may hold before a run
dotGit == <<".","g","i","t">>
headFile == <<"H","E","A","D">>
cname == <<"C","N","A","M","E">>
bHtml == <<"b",".","h","t","m","l">>
mainCss == <<"m","a","i","n",".","c","s","s">>
StyleFiles == {mainCss}

MaxPosts == 3

Range(s) == {s[i] : i \in 1..Len(s)}
Reverse(s) == [i \in 1..Len(s) |-> s[Len(s) + 1 - i]]
EndsWith(s, p) == Len(s) >= Len(p) /\ SubSeq(s, Len(s) - Len(p) + 1, Len(s)) = p

\* String.prototype.replace(pattern, replacement) with a string pattern:
\* only the first occurrence is replaced.
Occurrences(s, pat) ==
    {i \in 1..(Len(s) - Len(pat) + 1) : SubSeq(s, i, i + Len(pat) - 1) = pat}
Replace(s, pat, rep) ==
    IF Occurrences(s, pat) = {} THEN s
    ELSE LET i == CHOOSE k \in Occurrences(s, pat) :
                      \A m \in Occurrences(s, pat) : k <= m
         IN SubSeq(s, 1, i - 1) \o rep \o SubSeq(s, i + Len(pat), Len(s))

postOutputFile(file) == Replace(file, dotMd, dotHtml)
postOutputPath(file) == <<outputFolder, postsFolder, postOutputFile(file)>>
indexPath == <<outputFolder, indexHtml>>
StylePaths == {<<outputFolder, stylesFolder, f>> : f \in StyleFiles}

----------------------------------------------------------------------------
(* excerpt (line 34), computed on the plain text html2plaintext returns.    *)

ExcerptTokens == 30

space == " "
newline == "\n"
Min(a, b) == IF a < b THEN a ELSE b

\* String.prototype.split(" "): cut at every single space, empty pieces kept
RECURSIVE split(_, _)
split(s, sep) ==
    IF \A i \in 1..Len(s) : s[i] # sep THEN <<s>>
    ELSE LET i == CHOOSE k \in 1..Len(s) :
                      s[k] = sep /\ \A m \in 1..(k - 1) : s[m] # sep
         IN <<SubSeq(s, 1, i - 1)>> \o split(SubSeq(s, i + 1, Len(s)), sep)
\* Array.prototype.slice(0, n)
slice(a, n) == SubSeq(a, 1, Min(n, Len(a)))
\* Array.prototype.join(sep)
RECURSIVE join(_, _)
join(a, sep) ==
    IF Len(a) = 0 THEN <<>>
    ELSE IF Len(a) = 1 THEN a[1]
    ELSE a[1] \o <<sep>> \o join(Tail(a), sep)

excerpt(plain) == join(slice(split(plain, space), ExcerptTokens), space)

----------------------------------------------------------------------------
(* The posts: what parsing a post file gives.                              *)

\* values found in front matter
titleValue == <<"T">>
urlValue == <<stylesFolder, mainCss>>
excerptValue == <<"f", "m">>
\* yamlFront.loadFront(text): the front matter of the post files.  b.md has
\* a url key and a.html an excerpt key besides the title.
FrontMatter(file) ==
    IF file = bMd THEN [title |-> titleValue, url |-> urlValue]
    ELSE IF file = aHtml THEN [title |-> titleValue, excerpt |-> excerptValue]
    ELSE [title |-> titleValue]
\* html2plaintext(markdownHTML): the plain text of the rendered bodies
html2plaintext(html) ==
    IF html.file = aMd THEN <<"w", space, "v">>
    ELSE IF html.file = bMd THEN <<"w", newline, "v">>
    ELSE <<"w">>
\* parseMarkdownFile(text) for the text of file, called by read task number
\* task: markdownHTML stands for the string that this call rendered
ParsedPost(file, task) ==
    [frontMatter |-> FrontMatter(file),
     markdownHTML |-> [file |-> file, task |-> task]]
NoHTML == [file |-> <<>>, task |-> 0]

\* { ...a, ...b }: the keys of b win
Spread(a, b) ==
    [k \in DOMAIN a \cup DOMAIN b |-> IF k \in DOMAIN b THEN b[k] ELSE a[k]]

----------------------------------------------------------------------------
(* File contents.                                                          *)

OldContent == [kind |-> "old", src |-> <<>>, markdownHTML |-> NoHTML, postExcerpts |-> <<>>]
TornContent == [kind |-> "torn", src |-> <<>>, markdownHTML |-> NoHTML, postExcerpts |-> <<>>]
StyleContent(f) == [kind |-> "style", src |-> <<f>>, markdownHTML |-> NoHTML, postExcerpts |-> <<>>]

\* renderTemplate(md, postTemplate): the page rendered from the view
\* { ...frontMatter, markdownHTML }
renderTemplate(md) ==
    LET view == Spread(md.frontMatter, [markdownHTML |-> md.markdownHTML])
    IN [kind |-> "page", src |-> <<view.markdownHTML.file>>,
        markdownHTML |-> view.markdownHTML, postExcerpts |-> <<>>]

\* lines 73-77: the listing entry { url, excerpt, ...md.frontMatter } of one
\* element of postMarkdown; file and from record where the entry comes from
\* and are not part of the view
ListingEntryRerendered(item) ==
    LET html == [file |-> item.file, task |-> 0] IN
    Spread(Spread([url |-> <<postsFolder, postOutputFile(item.file)>>,
                   excerpt |-> excerpt(html2plaintext(html))],
                  item.md.frontMatter),
           [file |-> item.file, from |-> html])
ListingEntry(item) ==
    Spread(Spread([url |-> <<postsFolder, postOutputFile(item.file)>>,
                   excerpt |-> excerpt(html2plaintext(item.md.markdownHTML))],
                  item.md.frontMatter),
           [file |-> item.file, from |-> item.md.markdownHTML])
homepage(pm) ==
    [kind |-> "index", src |-> <<>>, markdownHTML |-> NoHTML,
     postExcerpts |-> [i \in 1..Len(pm) |-> ListingEntry(pm[i])]]

\* readdirSync(outputFolder): the top-level entries
Readdir(f) == {p[2] : p \in {q \in DOMAIN f : q[1] = outputFolder}}
\* .filter(file => file[0] != ".")
ToRemoveAll(contents) == contents
ToRemove(contents) == {file \in contents : file[1] # "."}
\* fse.remove(`${outputFolder}/${file}`): the entry and all below it go
Remove(f, file) ==
    [p \in {q \in DOMAIN f : ~(q[1] = outputFolder /\ q[2] = file)} |-> f[p]]
\* fse.outputFile(path, text): create or overwrite
Put(f, path, content) ==
    [p \in DOMAIN f \cup {path} |-> IF p = path THEN content ELSE f[p]]
\* fse.copy(stylesFolder, `${outputFolder}/styles`)
CopyStylesInto(f) ==
    [p \in DOMAIN f \cup StylePaths |->
        IF p \in StylePaths THEN StyleContent(p[3]) ELSE f[p]]

\* the parts of the output folder the properties speak about
IsDotName(name) == name[1] = "."
Hidden(f) == [p \in {q \in DOMAIN f : q[1] = outputFolder /\ IsDotName(q[2])} |-> f[p]]
NonHiddenPaths(f) == {q \in DOMAIN f : q[1] = outputFolder /\ ~IsDotName(q[2])}
PagePaths(f) == {q \in DOMAIN f : q[1] = outputFolder /\ q[2] = postsFolder}

----------------------------------------------------------------------------
(* Promises.                                                               *)

\* Promise.all is fulfilled when every input promise is fulfilled; it is
\* rejected as soon as one is rejected, and then never fulfilled.
AnyFulfilled(status) == DOMAIN status = {} \/ \E k \in DOMAIN status : status[k] = "ok"
NotAwaited(status) == TRUE
AllSettled(status) == \A k \in DOMAIN status : status[k] # "pending"
AllFulfilled(status) == \A k \in DOMAIN status : status[k] = "ok"
\* Promise.all fulfils with the values in the order of the input promises,
\* whatever the order in which they settled.
PromiseAllSettleOrder(values, order) == [i \in 1..Len(order) |-> values[order[i]]]
PromiseAll(values, order) == values

\* yamlFront.loadFront throws on a malformed header
parseMarkdownFileLenient(file, bad) == "ok"
parseMarkdownFile(file, bad) == IF file \in bad THEN "parseFailed" ELSE "ok"

\* try { outputFolderContents = fse.readdirSync(outputFolder) } catch {}
outputFolderContentsNoCatch(exists, f) ==
    IF exists THEN [defined |-> TRUE, rethrown |-> FALSE, entries |-> Readdir(f)]
    ELSE [defined |-> FALSE, rethrown |-> TRUE, entries |-> {}]
outputFolderContents(exists, f) ==
    IF exists THEN [defined |-> TRUE, rethrown |-> FALSE, entries |-> Readdir(f)]
    ELSE [defined |-> FALSE, rethrown |-> FALSE, entries |-> {}]

WriteStatus == [i \in DOMAIN writes |-> writes[i].status]

\* an I/O operation in flight settles only while the process is alive; the
\* rejection of main does not cancel the operations already started
ProcessAliveUnrejected == pc # "exited" /\ ~failed
ProcessAlive == pc # "exited"

\* main is rejected by a task of a concurrent phase: main stays suspended at
\* its await for ever, the other tasks of the phase are still in flight
Reject(step) ==
    /\ failed' = TRUE
    /\ failedAt' = IF failed THEN failedAt ELSE step

\* main is rejected by one of its own sequential steps
ThrowSwallowed(step) ==
    /\ pc' = "listOutput"
    /\ Reject(step)
Throw(step) ==
    /\ pc' = "rejected"
    /\ Reject(step)

\* posts.map(file => readFile(...).then(...)): every read is started at once
StartReads(p) ==
    /\ reads' = [i \in 1..Len(p) |-> "pending"]
    /\ pc' = "parse"

----------------------------------------------------------------------------
(* The steps of main.                                                      *)

\* line 43
ListPosts ==
    /\ pc = "listPosts"
    /\ \/ /\ posts' = postsDir
          /\ pc' = "readPostTemplate"
          /\ UNCHANGED <<failed, failedAt>>
       \/ /\ Throw("listPosts")
          /\ UNCHANGED posts
    /\ UNCHANGED <<postsDir, malformed, fs, outExists, removes, reads, readOrder,
                   postMarkdown, writes, written, fs0, run, fsFirst, excerptVars, reordered, outExists0>>

\* line 44
ReadPostTemplate ==
    /\ pc = "readPostTemplate"
    /\ \/ /\ pc' = "listOutput"
          /\ UNCHANGED <<failed, failedAt>>
       \/ Throw("readPostTemplate")
    /\ UNCHANGED <<postsDir, malformed, fs, outExists, posts, removes, reads,
                   readOrder, postMarkdown, writes, written, fs0, run, fsFirst,
                   excerptVars, reordered, outExists0>>

\* lines 47-56: list the output folder and start the removals
ListOutput ==
    /\ pc = "listOutput"
    /\ LET c == outputFolderContents(outExists, fs) IN
         IF c.rethrown
         THEN Throw("clear") /\ UNCHANGED <<removes, reads>>
         ELSE IF c.defined
         THEN /\ removes' = [file \in ToRemove(c.entries) |-> "pending"]
              /\ pc' = "clear"
              /\ UNCHANGED <<reads, failed, failedAt>>
         ELSE /\ StartReads(posts)
              /\ UNCHANGED <<removes, failed, failedAt>>
    /\ UNCHANGED <<postsDir, malformed, fs, outExists, posts, readOrder,
                   postMarkdown, writes, written, fs0, run, fsFirst, excerptVars, reordered, outExists0>>

\* line 55: one fse.remove settles
RemoveEntry(file) ==
    /\ ProcessAlive
    /\ file \in DOMAIN removes
    /\ removes[file] = "pending"
    /\ \/ /\ removes' = [removes EXCEPT ![file] = "ok"]
          /\ fs' = Remove(fs, file)
          /\ UNCHANGED <<failed, failedAt>>
       \/ /\ removes' = [removes EXCEPT ![file] = "failed"]
          /\ Reject("clear")
          /\ UNCHANGED fs
    /\ UNCHANGED <<postsDir, malformed, outExists, pc, posts, reads, readOrder,
                   postMarkdown, writes, written, fs0, run, fsFirst, excerptVars, reordered, outExists0>>

\* line 52 await, then line 60-62 up to the await
AwaitClear ==
    /\ pc = "clear"
    /\ AllFulfilled(removes)
    /\ StartReads(posts)
    /\ UNCHANGED <<postsDir, malformed, fs, outExists, posts, removes, readOrder,
                   postMarkdown, writes, failed, failedAt, written, fs0, run,
                   fsFirst, excerptVars, reordered, outExists0>>

\* lines 61-62: one read settles and its text is parsed
ReadPost(i) ==
    /\ ProcessAlive
    /\ i \in DOMAIN reads
    /\ reads[i] = "pending"
    /\ \E outcome \in {"readFailed", parseMarkdownFile(posts[i], malformed)} :
         /\ reads' = [reads EXCEPT ![i] = outcome]
         /\ IF outcome = "ok" THEN UNCHANGED <<failed, failedAt>>
                              ELSE Reject("parse")
    /\ readOrder' = Append(readOrder, i)
    /\ UNCHANGED <<postsDir, malformed, fs, outExists, pc, posts, removes,
                   postMarkdown, writes, written, fs0, run, fsFirst, excerptVars, reordered, outExists0>>

\* line 60 await and line 63 reverse, then lines 65-67 up to the await
AwaitParse ==
    /\ pc = "parse"
    /\ AllFulfilled(reads)
    /\ LET values == [i \in 1..Len(posts) |->
                          [file |-> posts[i], md |-> ParsedPost(posts[i], i)]]
           pm == Reverse(PromiseAll(values, readOrder))
       IN
         /\ postMarkdown' = pm
         /\ writes' = [i \in 1..Len(pm) |->
                          [file |-> pm[i].file,
                           html |-> renderTemplate(pm[i].md),
                           path |-> postOutputPath(pm[i].file),
                           status |-> "pending"]]
    /\ pc' = "write"
    /\ reordered' = (readOrder # [i \in 1..Len(posts) |-> i])
    /\ readOrder' = <<>>
    /\ UNCHANGED <<postsDir, malformed, fs, outExists, posts, removes, reads,
                   failed, failedAt, written, fs0, outExists0, run, fsFirst,
                   excerptVars>>

\* line 67: one saveFile settles.  Two tasks writing the same path race: the
\* later one wins, or the file is a mix of both.
SavePost(i) ==
    /\ ProcessAlive
    /\ i \in DOMAIN writes
    /\ writes[i].status = "pending"
    /\ LET w == writes[i]
           raced == \E j \in DOMAIN writes : j # i /\ writes[j].path = w.path
       IN \/ /\ writes' = [writes EXCEPT ![i].status = "ok"]
             /\ \E content \in {w.html} \cup
                               (IF raced THEN {TornContent} ELSE {}) :
                   fs' = Put(fs, w.path, content)
             /\ written' = written \cup {w.path}
             /\ outExists' = TRUE
             /\ UNCHANGED <<failed, failedAt>>
          \/ /\ writes' = [writes EXCEPT ![i].status = "failed"]
             /\ Reject("write")
             /\ \/ UNCHANGED <<fs, written, outExists>>
                \/ /\ fs' = Put(fs, w.path, TornContent)
                   /\ written' = written \cup {w.path}
                   /\ outExists' = TRUE
    /\ UNCHANGED <<postsDir, malformed, pc, posts, removes, reads, readOrder,
                   postMarkdown, fs0, run, fsFirst, excerptVars, reordered, outExists0>>

\* line 65 await
AwaitWrite ==
    /\ pc = "write"
    /\ AllFulfilled(WriteStatus)
    /\ pc' = "readHomeTemplate"
    /\ UNCHANGED <<postsDir, malformed, fs, outExists, posts, removes, reads,
                   readOrder, postMarkdown, writes, failed, failedAt, written,
                   fs0, run, fsFirst, excerptVars, reordered, outExists0>>

\* line 71
ReadHomeTemplate ==
    /\ pc = "readHomeTemplate"
    /\ \/ /\ pc' = "saveIndex"
          /\ UNCHANGED <<failed, failedAt>>
       \/ Throw("readHomeTemplate")
    /\ UNCHANGED <<postsDir, malformed, fs, outExists, posts, removes, reads,
                   readOrder, postMarkdown, writes, written, fs0, run, fsFirst,
                   excerptVars, reordered, outExists0>>

\* lines 72-79
SaveIndex ==
    /\ pc = "saveIndex"
    /\ \/ /\ fs' = Put(fs, indexPath, homepage(postMarkdown))
          /\ written' = written \cup {indexPath}
          /\ outExists' = TRUE
          /\ pc' = "copyStyles"
          /\ UNCHANGED <<failed, failedAt>>
       \/ /\ Throw("saveIndex")
          /\ \/ UNCHANGED <<fs, written, outExists>>
             \/ /\ fs' = Put(fs, indexPath, TornContent)
                /\ written' = written \cup {indexPath}
                /\ outExists' = TRUE
    /\ UNCHANGED <<postsDir, malformed, posts, removes, reads, readOrder,
                   postMarkdown, writes, fs0, run, fsFirst, excerptVars, reordered, outExists0>>

\* lines 83-85
CopyStyles ==
    /\ pc = "copyStyles"
    /\ \/ /\ fs' = CopyStylesInto(fs)
          /\ written' = written \cup StylePaths
          /\ outExists' = TRUE
          /\ pc' = "done"
          /\ UNCHANGED <<failed, failedAt>>
       \/ /\ Throw("copyStyles")
          /\ UNCHANGED <<fs, written, outExists>>
    /\ UNCHANGED <<postsDir, malformed, posts, removes, reads, readOrder,
                   postMarkdown, writes, fs0, run, fsFirst, excerptVars, reordered, outExists0>>

\* the rejection of main is unhandled: the process may end with tasks of the
\* current phase still in flight
Exit ==
    /\ failed
    /\ pc # "exited"
    /\ pc' = "exited"
    /\ UNCHANGED <<postsDir, malformed, fs, outExists, posts, removes, reads,
                   readOrder, postMarkdown, writes, failed, failedAt, written,
                   fs0, run, fsFirst, excerptVars, reordered, outExists0>>

\* the script is run again on the same inputs after a successful run
Rebuild ==
    /\ pc = "done"
    /\ run = "first"
    /\ run' = "second"
    /\ fsFirst' = fs
    /\ fs0' = fs
    /\ outExists0' = outExists
    /\ pc' = "listPosts"
    /\ posts' = <<>>
    /\ removes' = <<>>
    /\ reads' = <<>>
    /\ readOrder' = <<>>
    /\ postMarkdown' = <<>>
    /\ writes' = <<>>
    /\ written' = {}
    /\ reordered' = FALSE
    /\ UNCHANGED <<postsDir, malformed, fs, outExists, failed, failedAt,
                   excerptVars>>

----------------------------------------------------------------------------
\* listings of the posts folder: distinct names in any order
Listings ==
    {s \in UNION {[1..n -> FileNames] : n \in 0..MaxPosts} :
        \A i, j \in 1..Len(s) : i # j => s[i] # s[j]}

\* the post files whose front matter may be malformed
MaybeMalformed == {aMd, bMd}

\* what the output folder may hold before the first run
PriorPaths ==
    {<<outputFolder, dotGit, headFile>>,
     <<outputFolder, postsFolder, bHtml>>,
     <<outputFolder, cname>>}

Init ==
    /\ postsDir \in Listings
    /\ malformed \in SUBSET (Range(postsDir) \cap MaybeMalformed)
    /\ outExists \in BOOLEAN
    /\ \E S \in SUBSET PriorPaths :
          /\ ~outExists => S = {}
          /\ fs = [p \in S |-> OldContent]
    /\ pc = "listPosts"
    /\ posts = <<>>
    /\ removes = <<>>
    /\ reads = <<>>
    /\ readOrder = <<>>
    /\ reordered = FALSE
    /\ postMarkdown = <<>>
    /\ writes = <<>>
    /\ failed = FALSE
    /\ failedAt = "none"
    /\ written = {}
    /\ fs0 = fs
    /\ outExists0 = outExists
    /\ run = "first"
    /\ fsFirst = <<>>
    /\ text = <<>>
    /\ result = <<>>

Next ==
    \/ ListPosts
    \/ ReadPostTemplate
    \/ ListOutput
    \/ \E file \in DOMAIN removes : RemoveEntry(file)
    \/ AwaitClear
    \/ \E i \in DOMAIN reads : ReadPost(i)
    \/ AwaitParse
    \/ \E i \in DOMAIN writes : SavePost(i)
    \/ AwaitWrite
    \/ ReadHomeTemplate
    \/ SaveIndex
    \/ CopyStyles
    \/ Exit
    \/ Rebuild

Spec == Init /\ [][Next]_vars

----------------------------------------------------------------------------
(* Properties of the build.                                                *)

HomepageFiles ==
    [i \in 1..Len(fs[indexPath].postExcerpts) |-> fs[indexPath].postExcerpts[i].file]

\* C1: after a successful build the homepage lists the posts in exactly the
\* reverse of the order of the directory listing, whatever the order in
\* which the reads settled.
HomepageReversesListing ==
    pc = "done" => HomepageFiles = Reverse(postsDir)
HomepageReversesListingWitness ==
    /\ pc = "done"
    /\ Len(postsDir) = 3
    /\ reordered

\* C2: after a successful build the post pages are in one-to-one
\* correspondence with the input files: distinct files were written to
\* distinct paths, and there are as many pages as input files.
OnePagePerPost ==
    pc = "done" =>
        /\ \A i, j \in DOMAIN writes : i # j => writes[i].path # writes[j].path
        /\ Cardinality(PagePaths(fs)) = Len(postsDir)

\* C3: a post file with the markdown extension is written to the path of its
\* name with the trailing .md replaced by .html.
SwapTrailingExtension(file) == SubSeq(file, 1, Len(file) - Len(dotMd)) \o dotHtml
TrailingExtensionSwapped ==
    \A i \in DOMAIN writes :
        (writes[i].status = "ok" /\ EndsWith(writes[i].file, dotMd)) =>
            writes[i].path =
                <<outputFolder, postsFolder, SwapTrailingExtension(writes[i].file)>>

ClearFinished ==
    \/ pc \in {"parse", "write", "readHomeTemplate", "saveIndex", "copyStyles", "done"}
    \/ pc = "clear" /\ AllFulfilled(removes)
    \/ /\ pc \in {"rejected", "exited"}
       /\ failedAt \in {"parse", "write", "readHomeTemplate", "saveIndex", "copyStyles"}

\* C4: once the clear step has finished, no entry of the output folder from
\* before the run is left whose name does not begin with a dot, and at every
\* point of the run the entries whose name begins with a dot are as they were
\* when the run started.
ClearSparesHidden ==
    /\ Hidden(fs) = Hidden(fs0)
    /\ ClearFinished => NonHiddenPaths(fs) \subseteq written
ClearSparesHiddenWitness ==
    /\ pc = "parse"
    /\ Hidden(fs0) # <<>>
    /\ Cardinality(NonHiddenPaths(fs0)) = 2
    /\ NonHiddenPaths(fs) = {}

\* C5: after a successful build the non-hidden contents of the output folder
\* are exactly index.html, one page per input post and the styles copy.
RegeneratedExactly ==
    pc = "done" =>
        /\ NonHiddenPaths(fs) =
              {indexPath} \cup StylePaths \cup {postOutputPath(f) : f \in Range(postsDir)}
        /\ Cardinality(PagePaths(fs)) = Len(postsDir)

\* C6: when the output folder does not exist at the start of a run, no
\* removal is ever started, the clear step never rejects the build, and the
\* build goes on to the later phases.
MissingOutputTolerated ==
    ~outExists0 =>
        /\ DOMAIN removes = {}
        /\ pc # "clear"
        /\ failedAt # "clear"
        /\ DOMAIN fs0 \subseteq DOMAIN fs
MissingOutputToleratedWitness ==
    /\ ~outExists0
    /\ pc = "done"
    /\ Len(postsDir) = 2
    /\ indexPath \in DOMAIN fs
    /\ StylePaths \subseteq DOMAIN fs

\* C7: once a step has failed, no step of a later phase is started, nothing
\* that failed is tried again, and the build never ends in success.
FailureStopsBuild ==
    failed =>
        /\ pc # "done"
        /\ failedAt \in {"listPosts", "readPostTemplate"} =>
              DOMAIN removes = {} /\ fs = fs0
        /\ failedAt \in {"listPosts", "readPostTemplate", "clear"} =>
              DOMAIN reads = {}
        /\ failedAt \in {"listPosts", "readPostTemplate", "clear", "parse"} =>
              DOMAIN writes = {} /\ written = {}
        /\ failedAt \in {"listPosts", "readPostTemplate", "clear", "parse", "write",
                         "readHomeTemplate"} =>
              indexPath \notin written
        /\ StylePaths \cap written = {}
NoRetry ==
    /\ failed => failed' /\ failedAt' = failedAt
    /\ \A k \in DOMAIN removes : removes[k] = "failed" => removes'[k] = "failed"
    /\ \A k \in DOMAIN reads : reads[k] \in {"readFailed", "parseFailed"} => reads'[k] = reads[k]
    /\ \A k \in DOMAIN writes : writes[k].status = "failed" => writes'[k].status = "failed"
AbortOnFailure == [](FailureStopsBuild) /\ [][NoRetry]_vars
AbortOnFailureWitness ==
    /\ failedAt = "write"
    /\ \E i, j \in DOMAIN writes : writes[i].status = "ok" /\ writes[j].status = "failed"
    /\ pc = "exited"

\* C8: if a post file has a malformed header, no post page, no index.html
\* and no styles file is written in that run, and the run does not succeed.
MalformedNoOutput ==
    malformed # {} => written = {} /\ pc # "done"
MalformedNoOutputWitness ==
    /\ malformed # {}
    /\ Len(posts) = 3
    /\ \E i, j, k \in DOMAIN reads :
          /\ reads[i] = "ok" /\ reads[j] = "parseFailed" /\ reads[k] = "ok"
          /\ readOrder = <<i, j, k>>
          /\ i > j

\* C9: a second run on unchanged inputs leaves the output tree as the first
\* run left it.
SecondRunIdentical ==
    (run = "second" /\ pc = "done") => fs = fsFirst

----------------------------------------------------------------------------
(* excerpt (line 34).  html2plaintext is a library: text is the plain text *)
(* it returned, words separated by spaces and line breaks.                 *)

MaxWords == 32

\* the whitespace-separated tokens of a text
IsWhitespace(c) == c \in {space, newline}
RECURSIVE WhitespaceTokens(_)
WhitespaceTokens(s) ==
    IF s = <<>> THEN <<>>
    ELSE IF IsWhitespace(s[1]) THEN WhitespaceTokens(Tail(s))
    ELSE LET n == IF \E k \in 1..Len(s) : IsWhitespace(s[k])
                  THEN (CHOOSE k \in 1..Len(s) :
                            IsWhitespace(s[k]) /\ \A m \in 1..(k - 1) : ~IsWhitespace(s[m])) - 1
                  ELSE Len(s)
         IN <<SubSeq(s, 1, n)>> \o WhitespaceTokens(SubSeq(s, n + 1, Len(s)))

Separators == {<<space>>, <<space, space>>, <<newline>>, <<newline, newline>>}
\* the text has a separator other than one single space
HasOddSeparator(s) ==
    \E i \in 1..Len(s) : s[i] = newline \/ (i > 1 /\ s[i] = space /\ s[i - 1] = space)

\* the plain text grows by one word; at most one separator of the text is not
\* a single space
AppendWord(sep) ==
    /\ pc = "excerptInput"
    /\ Len(WhitespaceTokens(text)) < MaxWords
    /\ HasOddSeparator(text) => sep = <<space>>
    /\ LET word == IF Len(WhitespaceTokens(text)) % 2 = 0 THEN <<"w">> ELSE <<"v">>
       IN text' = (IF text = <<>> THEN <<>> ELSE text \o sep) \o word
    /\ UNCHANGED <<buildVars, result>>

\* line 75: excerpt(md.markdownHTML), after html2plaintext gave text
Excerpt ==
    /\ pc = "excerptInput"
    /\ result' = excerpt(text)
    /\ pc' = "excerptDone"
    /\ UNCHANGED <<postsDir, malformed, fs, outExists, posts, removes, reads,
                   readOrder, reordered, postMarkdown, writes, failed, failedAt,
                   written, fs0, outExists0, run, fsFirst, text>>

ExcerptInit ==
    /\ postsDir = <<>>
    /\ malformed = {}
    /\ outExists = FALSE
    /\ fs = <<>>
    /\ pc = "excerptInput"
    /\ posts = <<>>
    /\ removes = <<>>
    /\ reads = <<>>
    /\ readOrder = <<>>
    /\ reordered = FALSE
    /\ postMarkdown = <<>>
    /\ writes = <<>>
    /\ failed = FALSE
    /\ failedAt = "none"
    /\ written = {}
    /\ fs0 = <<>>
    /\ outExists0 = FALSE
    /\ run = "first"
    /\ fsFirst = <<>>
    /\ text = <<>>
    /\ result = <<>>

ExcerptNext ==
    \/ \E sep \in Separators : AppendWord(sep)
    \/ Excerpt

ExcerptSpec == ExcerptInit /\ [][ExcerptNext]_vars

\* C10: excerpt returns the first 30 whitespace-separated tokens of the
\* plain text joined by single spaces, and all of them when there are fewer.
ExcerptFirstTokens ==
    pc = "excerptDone" =>
        result = join(slice(WhitespaceTokens(text), ExcerptTokens), space)

----------------------------------------------------------------------------
(* Properties of the build, continued.                                     *)

DeletedPaths == DOMAIN fs0 \ DOMAIN fs

\* C11: every file the script creates or deletes lies under the docs folder,
\* the output folder the README names.
OutputUnderDocs ==
    \A p \in written \cup DeletedPaths : p[1] = docsFolder

NonePending(status) == \A k \in DOMAIN status : status[k] # "pending"
EveryOk(status) == \A k \in DOMAIN status : status[k] = "ok"

\* C12: no post page write is started before every read/parse has finished,
\* index.html is not written before every page write has finished, and the
\* styles copy is not started before index.html has been written.
PhaseBarrier ==
    /\ (DOMAIN writes # {} \/ written # {}) =>
          DOMAIN reads = 1..Len(posts) /\ EveryOk(reads)
    /\ (pc \in {"saveIndex", "copyStyles", "done"} \/ indexPath \in written) =>
          DOMAIN writes = 1..Len(posts) /\ EveryOk(WriteStatus)
    /\ (pc \in {"copyStyles", "done"} \/ StylePaths \cap written # {}) =>
          indexPath \in written /\ fs[indexPath].kind = "index"
PhaseBarrierWitness ==
    /\ pc = "done"
    /\ Len(posts) = 3
    /\ EveryOk(WriteStatus)
    /\ StylePaths \subseteq written

\* C13 as stated: when a task of a concurrent phase has failed, every task
\* started in that phase has run to completion by the time the build has been
\* reported as failed and the process has terminated.
JoinedBeforeFailure ==
    (failed /\ pc = "exited") =>
        NonePending(removes) /\ NonePending(reads) /\ NonePending(WriteStatus)

\* C13 as amended: the failure of a task rejects the build at once; the tasks
\* already started are not cancelled: while the process is alive each of them
\* stays in flight and can still settle, and a settled task stays settled.
FailureReportedAtOnce ==
    /\ (\E k \in DOMAIN removes : removes[k] = "failed") => failed
    /\ (\E k \in DOMAIN reads : reads[k] \in {"readFailed", "parseFailed"}) => failed
    /\ (\E k \in DOMAIN writes : writes[k].status = "failed") => failed
StartedTasksCanSettle ==
    pc # "exited" =>
        /\ \A k \in DOMAIN removes : removes[k] = "pending" => ENABLED RemoveEntry(k)
        /\ \A k \in DOMAIN reads : reads[k] = "pending" => ENABLED ReadPost(k)
        /\ \A k \in DOMAIN writes : writes[k].status = "pending" => ENABLED SavePost(k)
NotCancelled ==
    /\ \A k \in DOMAIN removes : (removes[k] = "pending" /\ run' = run) => k \in DOMAIN removes'
    /\ \A k \in DOMAIN reads : (reads[k] = "pending" /\ run' = run) => k \in DOMAIN reads'
    /\ \A k \in DOMAIN writes : (writes[k].status = "pending" /\ run' = run) => k \in DOMAIN writes'
FailFastWithoutCancel ==
    [](FailureReportedAtOnce /\ StartedTasksCanSettle) /\ [][NotCancelled]_vars
FailFastWithoutCancelWitness ==
    /\ failedAt = "parse"
    /\ pc = "parse"
    /\ Len(posts) = 3
    /\ \E i, j \in DOMAIN reads :
          /\ readOrder = <<i, j>>
          /\ reads[i] = "readFailed"
          /\ reads[j] = "ok"

\* C16: once an output write has been started no removal of the clear step
\* is in flight, and a file written by a run is never deleted by that run.
NoRemovalOnceWriting ==
    (DOMAIN writes # {} \/ written # {}) =>
        /\ NonePending(removes)
        /\ written \subseteq DOMAIN fs
NoRemovalOnceWritingWitness ==
    /\ Cardinality(DOMAIN removes) = 2
    /\ EveryOk(removes)
    /\ pc = "write"
    /\ \E i, j \in DOMAIN writes :
          writes[i].status = "ok" /\ writes[j].status = "pending"

\* C17: when listing the posts folder or reading the post template fails,
\* the output folder is as it was when the run started: nothing is removed
\* and nothing is written.
EarlyFailureLeavesOutput ==
    failedAt \in {"listPosts", "readPostTemplate"} =>
        /\ fs = fs0
        /\ outExists = outExists0
        /\ written = {}
        /\ DOMAIN removes = {}
        /\ pc \in {"rejected", "exited"}
EarlyFailureLeavesOutputWitness ==
    /\ failedAt = "readPostTemplate"
    /\ pc = "exited"
    /\ NonHiddenPaths(fs0) # {}
    /\ posts # <<>>

\* C14: the listing entry of every post carries as url the path /posts/<file
\* name of the page written for the post> and as excerpt the excerpt of the
\* post's rendered HTML, whatever keys the front matter has.
ListingEntryFixedFields ==
    pc \in {"copyStyles", "done"} =>
        \A i \in DOMAIN postMarkdown :
            LET entry == fs[indexPath].postExcerpts[i] IN
              /\ entry.url = <<postsFolder, writes[i].path[3]>>
              /\ entry.excerpt = excerpt(html2plaintext(writes[i].html.markdownHTML))

\* C15: each post file gets one read/parse task that settles once, and the
\* homepage entry of a post is made from the rendered HTML that this task
\* gave and that was composed into the post's page.
ParsedOnceAndReused ==
    /\ DOMAIN reads \subseteq 1..Len(posts)
    /\ \A a, b \in 1..Len(readOrder) : a # b => readOrder[a] # readOrder[b]
    /\ \A i \in DOMAIN postMarkdown :
          LET html == postMarkdown[i].md.markdownHTML IN
            /\ html.file = postMarkdown[i].file
            /\ html.task \in DOMAIN reads
            /\ posts[html.task] = html.file
            /\ writes[i].html.markdownHTML = html
    /\ pc \in {"copyStyles", "done"} =>
          /\ DOMAIN reads = 1..Len(posts)
          /\ Len(fs[indexPath].postExcerpts) = Len(posts)
          /\ \A i \in DOMAIN postMarkdown :
                fs[indexPath].postExcerpts[i].from = writes[i].html.markdownHTML
ParsedOnceAndReusedWitness ==
    /\ pc = "done"
    /\ Len(posts) = 2
    /\ reordered
    /\ fs[indexPath].postExcerpts[1].from = [file |-> posts[2], task |-> 2]
    /\ fs[postOutputPath(posts[2])].markdownHTML = [file |-> posts[2], task |-> 2]

====
